---- MODULE Spec2Model ----
(***************************************************************************)
(* Model of the 1v1 coding platform backend (src/main.py, src/schemas.py). *)
(* The document store holds four collections: question, room, message and  *)
(* match.  Every request handler runs in its own worker; a handler is a    *)
(* sequence of store round-trips, each of which is atomic on its own, and  *)
(* handlers of different workers interleave between round-trips.  The      *)
(* workers are interchangeable, so the handlers in flight are kept as a    *)
(* bag of handler frames rather than indexed by worker.                    *)
(***************************************************************************)
EXTENDS Integers, Sequences, FiniteSets, Bags, TLC

(* ---------------- bounds of the model ---------------- *)
\* number of workers serving requests concurrently
NumWorkers == 2
\* number of requests served in one behaviour
MaxCalls == 4

\* the payloads a join can carry (JoinPayload.name), as character sequences:
\* empty, blank, plain, and padded with whitespace on either side
RawNames == {<<>>, <<" ">>, <<"A">>, <<" ", "B", " ">>}
\* the room ids _gen_room_id can return and a client can put in a URL
RoomIds == {"R1", "R2"}
\* editor payloads (UpdateEditorPayload.content)
Contents == {"x", "y"}
\* chat payloads (SendMessagePayload)
Senders == {<<"A">>}
ChatTexts == {"hi"}

Null == "null"

(* ---------------- pure helpers ---------------- *)
RECURSIVE LStrip(_)
LStrip(s) == IF s = <<>> THEN s
             ELSE IF Head(s) = " " THEN LStrip(Tail(s)) ELSE s

RECURSIVE RStrip(_)
RStrip(s) == IF s = <<>> THEN s
             ELSE IF s[Len(s)] = " " THEN RStrip(SubSeq(s, 1, Len(s) - 1)) ELSE s

\* variant: the name is used as sent, without strip()
Strip_None(s) == s

\* str.strip(): leading and trailing whitespace removed, interior kept
Strip(s) == RStrip(LStrip(s))

\* the three sample questions seed_questions inserts, in order
Samples == <<"two-sum", "valid-parentheses", "longest-substring">>

(* ---------------- documents ---------------- *)
\* Match(name=name).model_dump(): status defaults to waiting, room_id to None
MatchDoc(id, name) == [_id |-> id, name |-> name, status |-> "waiting", room_id |-> Null]

\* Room(room_id, participants, question_slug, editor_content="")
RoomDoc(id, rid, parts, slug) ==
    [_id |-> id, room_id |-> rid, participants |-> parts,
     question_slug |-> slug, editor_content |-> ""]

\* Message(room_id, sender, content, type): type defaults to chat
MessageDoc(rid, sender, content, type) ==
    [room_id |-> rid, sender |-> sender, content |-> content, type |-> type]

\* the slugs of Samples
Slugs == {Samples[i] : i \in 1..Len(Samples)}

VARIABLES
    question,   \* collection "question": number of documents per slug
    room,       \* collection "room": set of room documents
    message,    \* collection "message": documents in creation order
    match,      \* collection "match": set of waiting entries
    nextId,     \* next fresh _id the store hands out in the match collection
    inflight,   \* bag of the frames (position and locals) of the handlers in flight
    calls,      \* requests accepted so far
    resp,       \* the response most recently returned to a client
    origin      \* history: for each room _id, the _id of the entry it was paired from

vars == <<question, room, message, match, nextId, inflight, calls, resp, origin>>

\* "no document": what find_one returns as None
NoDoc == MatchDoc(0, <<>>)

\* the frame of a handler: pc is the next store round-trip it will make
Frame == [pc |-> "", name |-> <<>>, other |-> NoDoc, room_id |-> Null,
          slug |-> Null, content |-> "", i |-> 0]

\* a response (or HTTP error) handed back to the client of one request: the
\* endpoint, the status or error, and the room_id of a paired response
\* (old is history: for an editor update, the content it replaced)
Resp(op, status, rid) ==
    [op |-> op, status |-> status, room_id |-> rid, old |-> ""]

NoResp == Resp("none", "none", Null)

Init ==
    /\ question = [s \in Slugs |-> 0]
    /\ room = {}
    /\ message = <<>>
    /\ match = {}
    /\ nextId = 1
    /\ inflight = EmptyBag
    /\ calls = 0
    /\ resp = NoResp
    /\ origin = {}

Reply(r) == resp' = r

NoReply == UNCHANGED resp

Handlers == BagToSet(inflight)

\* a free worker accepts a new request
Accept == /\ BagCardinality(inflight) < NumWorkers
          /\ calls < MaxCalls
          /\ calls' = calls + 1

\* the accepted request's handler is suspended at its next round-trip
Spawn(h) == inflight' = inflight (+) SetToBag({h})

\* handler h moves on to frame h2
Step(h, h2) == inflight' = (inflight (-) SetToBag({h})) (+) SetToBag({h2})

\* handler h returns
Return(h) == inflight' = inflight (-) SetToBag({h})

(* ---------------- store primitives ---------------- *)
\* create_document(collection, data): one insert_one of one document
create_document(col, doc) == col \cup {doc}

\* the slugs of the documents in the question collection
Catalog == {s \in Slugs : question[s] > 0}

\* count_documents({}) on the question collection
RECURSIVE SumOver(_, _)
SumOver(f, S) == IF S = {} THEN 0
                 ELSE LET x == CHOOSE y \in S : TRUE IN f[x] + SumOver(f, S \ {x})

CountQuestions == SumOver(question, Slugs)

\* the fresh _id the store gives the next room document (rooms are never deleted)
NewRoomId == Cardinality(room) + 1

\* the documents find_one({"status": "waiting"}) can return
Waiting == {e \in match : e.status = "waiting"}

\* the documents find_one / update_one({"room_id": rid}) can match
RoomsWith(rid) == {r \in room : r.room_id = rid}

SystemSender == <<"system">>

(* ---------------- POST /api/matchmaking/join ---------------- *)
\* variant: the lookup leaves out entries that carry the joiner's own name
JoinFind_NotSelf(raw) ==
    /\ Accept
    /\ UNCHANGED <<question, room, message, match, nextId, origin>>
    /\ LET name == Strip(raw)
           others == {e \in Waiting : e.name # name}
       IN
       IF name = <<>>
       THEN /\ Reply(Resp("join", "400", Null))
            /\ UNCHANGED inflight
       ELSE /\ NoReply
            /\ IF others = {}
               THEN Spawn([Frame EXCEPT !.pc = "j_enqueue", !.name = name])
               ELSE \E other \in others :
                        Spawn([Frame EXCEPT !.pc = "j_sample", !.name = name,
                                            !.other = other])

\* lines 141-149: strip and validate the name, then look for a waiting user
JoinFind(raw) ==
    /\ Accept
    /\ UNCHANGED <<question, room, message, match, nextId, origin>>
    /\ LET name == Strip(raw) IN
       IF name = <<>>
       THEN /\ Reply(Resp("join", "400", Null))
            /\ UNCHANGED inflight
       ELSE /\ NoReply
            /\ IF Waiting = {}
               THEN Spawn([Frame EXCEPT !.pc = "j_enqueue", !.name = name])
               ELSE \E other \in Waiting :
                        Spawn([Frame EXCEPT !.pc = "j_sample", !.name = name,
                                            !.other = other])

\* variant: returns waiting without persisting the Match document
JoinEnqueue_NoInsert(h) ==
    /\ h.pc = "j_enqueue"
    /\ Reply(Resp("join", "waiting", Null))
    /\ Return(h)
    /\ UNCHANGED <<question, room, message, match, nextId, calls, origin>>

\* lines 150-152: nobody waiting, enqueue this user and return
JoinEnqueue(h) ==
    /\ h.pc = "j_enqueue"
    /\ match' = create_document(match, MatchDoc(nextId, h.name))
    /\ nextId' = nextId + 1
    /\ Reply(Resp("join", "waiting", Null))
    /\ Return(h)
    /\ UNCHANGED <<question, room, message, calls, origin>>

\* variant: the sampled question is dropped, question_slug is always None
JoinSample_NoSlug(h) ==
    /\ h.pc = "j_sample"
    /\ \E rid \in RoomIds :
           Step(h, [h EXCEPT !.pc = "j_room", !.room_id = rid, !.slug = Null])
    /\ NoReply
    /\ UNCHANGED <<question, room, message, match, nextId, calls, origin>>

\* lines 155-161: draw a room id and sample one question from the catalog
JoinSample(h) ==
    /\ h.pc = "j_sample"
    /\ \E rid \in RoomIds :
       \E slug \in (IF Catalog = {} THEN {Null} ELSE Catalog) :
           Step(h, [h EXCEPT !.pc = "j_room", !.room_id = rid, !.slug = slug])
    /\ NoReply
    /\ UNCHANGED <<question, room, message, match, nextId, calls, origin>>

\* variant: participants listed joiner first
JoinCreateRoom_Swapped(h) ==
    /\ h.pc = "j_room"
    /\ room' = create_document(room, RoomDoc(NewRoomId, h.room_id,
                                             <<h.name, h.other.name>>, h.slug))
    /\ origin' = origin \cup {<<NewRoomId, h.other._id>>}
    /\ Step(h, [h EXCEPT !.pc = "j_delete"])
    /\ NoReply
    /\ UNCHANGED <<question, message, match, nextId, calls>>

\* variant: the waiting user's name is left out of participants
JoinCreateRoom_Solo(h) ==
    /\ h.pc = "j_room"
    /\ room' = create_document(room, RoomDoc(NewRoomId, h.room_id, <<h.name>>, h.slug))
    /\ origin' = origin \cup {<<NewRoomId, h.other._id>>}
    /\ Step(h, [h EXCEPT !.pc = "j_delete"])
    /\ NoReply
    /\ UNCHANGED <<question, message, match, nextId, calls>>

\* variant: the waiting entry is deleted where the Room should be persisted
JoinCreateRoom_DeleteFirst(h) ==
    /\ h.pc = "j_room"
    /\ match' = {e \in match : e._id # h.other._id}
    /\ Step(h, [h EXCEPT !.pc = "j_delete"])
    /\ NoReply
    /\ UNCHANGED <<question, room, message, nextId, calls, origin>>

\* lines 163-169: build the Room and persist it
JoinCreateRoom(h) ==
    /\ h.pc = "j_room"
    /\ room' = create_document(room, RoomDoc(NewRoomId, h.room_id,
                                             <<h.other.name, h.name>>, h.slug))
    /\ origin' = origin \cup {<<NewRoomId, h.other._id>>}
    /\ Step(h, [h EXCEPT !.pc = "j_delete"])
    /\ NoReply
    /\ UNCHANGED <<question, message, match, nextId, calls>>

\* variant: the consumed entry is left in the match collection
JoinDelete_Skip(h) ==
    /\ h.pc = "j_delete"
    /\ Step(h, [h EXCEPT !.pc = "j_notify"])
    /\ NoReply
    /\ UNCHANGED <<question, room, message, match, nextId, calls, origin>>

\* variant: the consumed entry is marked paired in place instead of deleted
JoinDelete_MarkPaired(h) ==
    /\ h.pc = "j_delete"
    /\ match' = {IF e._id = h.other._id
                 THEN [e EXCEPT !.status = "paired", !.room_id = h.room_id]
                 ELSE e : e \in match}
    /\ Step(h, [h EXCEPT !.pc = "j_notify"])
    /\ NoReply
    /\ UNCHANGED <<question, room, message, nextId, calls, origin>>

\* line 172: delete_one({"_id": other["_id"]})
JoinDelete(h) ==
    /\ h.pc = "j_delete"
    /\ match' = {e \in match : e._id # h.other._id}
    /\ Step(h, [h EXCEPT !.pc = "j_notify"])
    /\ NoReply
    /\ UNCHANGED <<question, room, message, nextId, calls, origin>>

\* lines 175-177: append the system message and return the room id
JoinNotify(h) ==
    /\ h.pc = "j_notify"
    /\ message' = Append(message, MessageDoc(h.room_id, SystemSender,
                                             "Match found!", "system"))
    /\ Reply(Resp("join", "paired", h.room_id))
    /\ Return(h)
    /\ UNCHANGED <<question, room, match, nextId, calls, origin>>

(* ---------------- POST /api/room/{room_id}/messages ---------------- *)
\* variant: the room lookup is skipped
SendFind_NoCheck(rid, sender, text) ==
    /\ Accept
    /\ UNCHANGED <<question, room, message, match, nextId, origin>>
    /\ NoReply
    /\ Spawn([Frame EXCEPT !.pc = "s_insert", !.room_id = rid,
                           !.name = sender, !.content = text])

\* lines 205-207: validate that the room exists
SendFind(rid, sender, text) ==
    /\ Accept
    /\ UNCHANGED <<question, room, message, match, nextId, origin>>
    /\ IF RoomsWith(rid) = {}
       THEN /\ Reply(Resp("send", "404", Null))
            /\ UNCHANGED inflight
       ELSE /\ NoReply
            /\ Spawn([Frame EXCEPT !.pc = "s_insert", !.room_id = rid,
                                   !.name = sender, !.content = text])

\* lines 208-209: store the chat message
SendInsert(h) ==
    /\ h.pc = "s_insert"
    /\ message' = Append(message, MessageDoc(h.room_id, h.name, h.content, "chat"))
    /\ Reply(Resp("send", "ok", Null))
    /\ Return(h)
    /\ UNCHANGED <<question, room, match, nextId, calls, origin>>

(* ---------------- PUT /api/room/{room_id}/editor ---------------- *)
\* variant: the content is only set while the editor is still empty
UpdateEditor_KeepFirst(rid, content) ==
    /\ Accept
    /\ UNCHANGED <<question, message, match, nextId, inflight, origin>>
    /\ IF RoomsWith(rid) = {}
       THEN /\ Reply(Resp("edit", "404", Null))
            /\ UNCHANGED room
       ELSE \E r \in RoomsWith(rid) :
                /\ room' = IF r.editor_content = ""
                           THEN (room \ {r}) \cup {[r EXCEPT !.editor_content = content]}
                           ELSE room
                /\ Reply([Resp("edit", "ok", Null) EXCEPT !.old = r.editor_content])

\* variant: update_one with upsert, which inserts a document when none matches
UpdateEditor_Upsert(rid, content) ==
    /\ Accept
    /\ UNCHANGED <<question, message, match, nextId, inflight, origin>>
    /\ IF RoomsWith(rid) = {}
       THEN /\ Reply(Resp("edit", "ok", Null))
            /\ room' = room \cup {[RoomDoc(NewRoomId, rid, <<>>, Null)
                                        EXCEPT !.editor_content = content]}
       ELSE \E r \in RoomsWith(rid) :
                /\ room' = (room \ {r}) \cup {[r EXCEPT !.editor_content = content]}
                /\ Reply([Resp("edit", "ok", Null) EXCEPT !.old = r.editor_content])

\* variant: the document is replaced by one holding only room_id and content
UpdateEditor_Replace(rid, content) ==
    /\ Accept
    /\ UNCHANGED <<question, message, match, nextId, inflight, origin>>
    /\ IF RoomsWith(rid) = {}
       THEN /\ Reply(Resp("edit", "404", Null))
            /\ UNCHANGED room
       ELSE \E r \in RoomsWith(rid) :
                /\ room' = (room \ {r}) \cup {[RoomDoc(r._id, rid, r.participants, Null)
                                                   EXCEPT !.editor_content = content]}
                /\ Reply([Resp("edit", "ok", Null) EXCEPT !.old = r.editor_content])

\* lines 214-218: one update_one; 404 when it matched nothing
UpdateEditor(rid, content) ==
    /\ Accept
    /\ UNCHANGED <<question, message, match, nextId, inflight, origin>>
    /\ IF RoomsWith(rid) = {}
       THEN /\ Reply(Resp("edit", "404", Null))
            /\ UNCHANGED room
       ELSE \E r \in RoomsWith(rid) :
                /\ room' = (room \ {r}) \cup {[r EXCEPT !.editor_content = content]}
                /\ Reply([Resp("edit", "ok", Null) EXCEPT !.old = r.editor_content])

(* ---------------- POST /api/seed-questions ---------------- *)
\* lines 95-97: count the catalog, return early when it is not empty
SeedCount ==
    /\ Accept
    /\ UNCHANGED <<question, room, message, match, nextId, origin>>
    /\ IF CountQuestions > 0
       THEN /\ Reply(Resp("seed", "not_seeded", Null))
            /\ UNCHANGED inflight
       ELSE /\ NoReply
            /\ Spawn([Frame EXCEPT !.pc = "seed_insert", !.i = 1])

\* lines 132-134: insert the samples one by one, return after the last
SeedInsert(h) ==
    /\ h.pc = "seed_insert"
    /\ question' = [question EXCEPT ![Samples[h.i]] = @ + 1]
    /\ IF h.i = Len(Samples)
       THEN /\ Reply(Resp("seed", "seeded", Null))
            /\ Return(h)
       ELSE /\ NoReply
            /\ Step(h, [h EXCEPT !.i = @ + 1])
    /\ UNCHANGED <<room, message, match, nextId, calls, origin>>

Next ==
    \/ \E raw \in RawNames : JoinFind(raw)
    \/ \E h \in Handlers : JoinEnqueue(h)
    \/ \E h \in Handlers : JoinSample(h)
    \/ \E h \in Handlers : JoinCreateRoom(h)
    \/ \E h \in Handlers : JoinDelete(h)
    \/ \E h \in Handlers : JoinNotify(h)
    \/ \E rid \in RoomIds, sender \in Senders, text \in ChatTexts :
           SendFind(rid, sender, text)
    \/ \E h \in Handlers : SendInsert(h)
    \/ \E rid \in RoomIds, content \in Contents : UpdateEditor(rid, content)
    \/ SeedCount
    \/ \E h \in Handlers : SeedInsert(h)

Spec == Init /\ [][Next]_vars

\* one request at a time: every handler runs to completion before the next
\* request is accepted
SeqNext == Next /\ BagCardinality(inflight') <= 1

SeqSpec == Init /\ [][SeqNext]_vars

\* join requests with non-empty names only, one at a time, from an empty store
JoinSeqNext ==
    /\ \/ \E raw \in RawNames : Strip(raw) # <<>> /\ JoinFind(raw)
       \/ \E h \in Handlers : JoinEnqueue(h)
       \/ \E h \in Handlers : JoinSample(h)
       \/ \E h \in Handlers : JoinCreateRoom(h)
       \/ \E h \in Handlers : JoinDelete(h)
       \/ \E h \in Handlers : JoinNotify(h)
    /\ BagCardinality(inflight') <= 1

JoinSeqSpec == Init /\ [][JoinSeqNext]_vars

(* ======================= properties ======================= *)

\* a payload that is empty once surrounding whitespace is removed
IsBlank(raw) == \A k \in 1..Len(raw) : raw[k] = " "

\* a name as the handler uses it: non-empty, no whitespace at either end
IsTrimmed(name) == /\ name # <<>>
                   /\ name[1] # " "
                   /\ name[Len(name)] # " "

StoreUnchanged == UNCHANGED <<question, room, message, match>>

\* C1: each WaitingEntry is consumed by at most one pairing: no two Rooms are
\* created whose first participant comes from the same WaitingEntry.
C1_SinglePairing ==
    \A a \in origin, b \in origin : a[2] = b[2] => a[1] = b[1]

\* the Rooms recorded as paired from the waiting entry with _id id
RoomsFrom(id) == {r \in room : <<r._id, id>> \in origin}

\* C2: when requests run one at a time, a join with a non-empty trimmed name
\* that finds a waiting entry `other` creates exactly one Room, with
\* participants [other.name, name] and empty editor_content, then removes
\* other's entry, adds no entry for the joiner, and returns paired with the
\* new room's id.
C2_PairingJoin ==
    [][/\ \A raw \in RawNames :
            (JoinFind(raw) /\ ~IsBlank(raw) /\ Waiting # {}) =>
                /\ StoreUnchanged
                /\ \E h \in BagToSet(inflight') :
                      /\ Spawn(h)
                      /\ h.pc = "j_sample"
                      /\ h.other \in Waiting
       /\ \A h \in Handlers :
         /\ JoinSample(h) => StoreUnchanged
         /\ JoinCreateRoom(h) =>
               /\ IsTrimmed(h.name)
               /\ h.other \in match
               /\ \E r \in room' \ room :
                     /\ room' = room \cup {r}
                     /\ r.participants = <<h.other.name, h.name>>
                     /\ r.editor_content = ""
                     /\ r.room_id = h.room_id
               /\ match' = match
         /\ JoinDelete(h) =>
               /\ h.other \in match
               /\ match' = match \ {h.other}
               /\ room' = room
         /\ JoinNotify(h) =>
               /\ resp' = Resp("join", "paired", h.room_id)
               /\ Cardinality(RoomsFrom(h.other._id)) = 1
               /\ \A r \in RoomsFrom(h.other._id) :
                     /\ r.participants = <<h.other.name, h.name>>
                     /\ r.room_id = h.room_id
               /\ room' = room
               /\ match' = match
               /\ h.other \notin match'
      ]_vars

\* C2 witness: Alice waited, Bob joined and got paired into [Alice, Bob].
C2_Witness ==
    /\ resp.op = "join" /\ resp.status = "paired"
    /\ inflight = EmptyBag
    /\ match = {}
    /\ \E r \in room : /\ r.participants = << <<"A">>, <<"B">> >>
                       /\ r.room_id = resp.room_id
                       /\ r.editor_content = ""

\* C3: a join with a non-empty trimmed name that finds nobody waiting changes
\* nothing when it looks, then inserts exactly one waiting entry with that
\* name, creates no Room and no Message, and returns waiting.
C3_WaitingJoin ==
    [][/\ \A raw \in RawNames :
            (JoinFind(raw) /\ ~IsBlank(raw) /\ Waiting = {}) =>
                /\ StoreUnchanged
                /\ \E h \in BagToSet(inflight') :
                      /\ Spawn(h)
                      /\ h.pc = "j_enqueue"
                      /\ IsTrimmed(h.name)
       /\ \A h \in Handlers :
            JoinEnqueue(h) =>
                /\ resp' = Resp("join", "waiting", Null)
                /\ \E e \in match' \ match :
                      /\ match' = match \cup {e}
                      /\ e.name = h.name
                      /\ e.status = "waiting"
                /\ UNCHANGED <<room, message, question>>
      ]_vars

\* C3 witness: the padded name " B " was enqueued as "B", nothing else exists.
C3_Witness ==
    /\ resp.op = "join" /\ resp.status = "waiting"
    /\ \E e \in match : e.name = <<"B">> /\ e.status = "waiting"
    /\ Cardinality(match) = 1
    /\ room = {}
    /\ message = <<>>

\* C4: every Room in the store has exactly two participants, and no step
\* changes the participants of a Room already stored.
C4_TwoParticipants ==
    /\ [](\A r \in room : Len(r.participants) = 2)
    /\ [][\A r \in room : \E r2 \in room' : /\ r2._id = r._id
                                            /\ r2.participants = r.participants]_vars

\* C4 witness: a Room whose editor has been written still has its two names.
C4_Witness ==
    \E r \in room : /\ r.editor_content = "x"
                    /\ r.participants = << <<"A">>, <<"B">> >>

\* C5: no two Rooms in the store have the same room_id, whatever ids the
\* generator returns.
C5_UniqueRoomIds ==
    \A r1 \in room, r2 \in room : r1.room_id = r2.room_id => r1 = r2

\* C6: in every room the "Match found!" system message is the first message
\* in creation order: the earliest message carrying a room_id is that one.
C6_MatchFoundFirst ==
    \A k \in 1..Len(message) :
        (\A j \in 1..(k - 1) : message[j].room_id # message[k].room_id)
            => /\ message[k].type = "system"
               /\ message[k].content = "Match found!"

\* C7: a join whose name is empty after trimming fails with 400 and leaves
\* every collection unchanged; no handler is left running for it.
C7_BlankNameRejected ==
    [][\A raw \in RawNames :
         (JoinFind(raw) /\ IsBlank(raw)) =>
             /\ resp' = Resp("join", "400", Null)
             /\ StoreUnchanged
             /\ UNCHANGED <<inflight, nextId>>
      ]_vars

\* C7 witness: a blank join was rejected while somebody was waiting.
C7_Witness ==
    /\ resp.op = "join" /\ resp.status = "400"
    /\ Waiting # {}

\* C8: every Message carries the room_id of a Room in the store, and
\* send_message on a room_id without a Room fails with 404, appends nothing.
C8_MessagesHaveRooms ==
    /\ [](\A k \in 1..Len(message) : RoomsWith(message[k].room_id) # {})
    /\ [][\A rid \in RoomIds, sender \in Senders, text \in ChatTexts :
            (SendFind(rid, sender, text) /\ RoomsWith(rid) = {}) =>
                /\ resp' = Resp("send", "404", Null)
                /\ StoreUnchanged
                /\ UNCHANGED inflight
         ]_vars

\* C8 witness: a chat message was stored for a Room, after which a send to
\* a room_id without a Room was refused.
C8_Witness ==
    /\ resp.op = "send" /\ resp.status = "404"
    /\ \E k \in 1..Len(message) : message[k].type = "chat"

\* C9: an update_editor call on an existing room leaves the Room it updated
\* with exactly the call's payload, whatever the content was before; so the
\* second of two sequential calls wins.
C9_LastWriteWins ==
    [][\A rid \in RoomIds, content \in Contents :
         (UpdateEditor(rid, content) /\ RoomsWith(rid) # {}) =>
             /\ resp'.op = "edit" /\ resp'.status = "ok"
             /\ \E r \in RoomsWith(rid) :
                   /\ resp'.old = r.editor_content
                   /\ room' = (room \ {r}) \cup {[r EXCEPT !.editor_content = content]}
             /\ \A r2 \in room' : r2.room_id = rid /\ r2 \notin room
                                     => r2.editor_content = content
      ]_vars

\* C9 witness: a second update has replaced the first update's "x" by "y".
C9_Witness ==
    /\ resp.op = "edit" /\ resp.status = "ok" /\ resp.old = "x"
    /\ Cardinality(room) = 1
    /\ \A r \in room : r.editor_content = "y"

\* C10: update_editor on a room_id without a Room fails with 404 and leaves
\* every collection unchanged.
C10_EditorNotFound ==
    [][\A rid \in RoomIds, content \in Contents :
         (UpdateEditor(rid, content) /\ RoomsWith(rid) = {}) =>
             /\ resp' = Resp("edit", "404", Null)
             /\ StoreUnchanged
             /\ UNCHANGED <<inflight, nextId>>
      ]_vars

\* C10 witness: an update was refused while another Room, already edited,
\* kept its content.
C10_Witness ==
    /\ resp.op = "edit" /\ resp.status = "404"
    /\ \E r \in room : r.editor_content = "x"

\* C11: the question catalog never holds two entries with the same slug,
\* however seed_questions calls overlap.
C11_NoDuplicateSlugs ==
    \A s \in Slugs : question[s] <= 1

\* the waiting entry that was enqueued first (the store hands out _ids in
\* insertion order)
Oldest(S) == CHOOSE e \in S : \A e2 \in S : e._id <= e2._id

\* C12: a join that finds waiting entries pairs with the one enqueued first.
C12_OldestFirst ==
    [][\A raw \in RawNames :
         (JoinFind(raw) /\ ~IsBlank(raw) /\ Waiting # {}) =>
             \E h \in BagToSet(inflight') :
                 /\ Spawn(h)
                 /\ h.pc = "j_sample"
                 /\ h.other = Oldest(Waiting)
      ]_vars

\* C13: the match collection holds at most one waiting entry per name.
C13_OneEntryPerName ==
    \A e1 \in Waiting, e2 \in Waiting : e1.name = e2.name => e1 = e2

C15_AtMostOneWaiting ==
    Cardinality(Waiting) <= 1

\* r2 is Room r with at most its editor_content changed
SameButEditor(r, r2) == r2 = [r EXCEPT !.editor_content = r2.editor_content]

\* C16: once a Room is created only its editor_content ever changes, and no
\* Room or Message is ever deleted; update_editor changes one Room's
\* editor_content and nothing else in the room, message and match
\* collections; send_message changes no Room and no waiting entry.
C16_FrameEffects ==
    [][/\ \A r \in room : \E r2 \in room' : SameButEditor(r, r2)
       /\ Len(message') >= Len(message)
       /\ SubSeq(message', 1, Len(message)) = message
       /\ \A rid \in RoomIds, content \in Contents :
             UpdateEditor(rid, content) =>
                 /\ UNCHANGED <<message, match>>
                 /\ Cardinality(room') = Cardinality(room)
                 /\ \A r \in room : r.room_id # rid => r \in room'
                 /\ Cardinality(room \ room') <= 1
       /\ \A rid \in RoomIds, sender \in Senders, text \in ChatTexts :
             SendFind(rid, sender, text) => UNCHANGED <<room, match, message>>
       /\ \A h \in Handlers :
             SendInsert(h) =>
                 /\ UNCHANGED <<room, match>>
                 /\ Len(message') = Len(message) + 1
      ]_vars

\* C16 witness: a Room was edited with a system message stored and another
\* user waiting; the Room kept its participants, the message and the entry
\* are still there.
C16_Witness ==
    /\ resp.op = "edit" /\ resp.status = "ok"
    /\ \E r \in room : /\ r.editor_content = "y"
                       /\ r.participants = << <<"A">>, <<"B">> >>
    /\ Len(message) = 1
    /\ Cardinality(match) = 1

\* the Rooms that name the waiting entry e: paired from it, with its name
\* among the participants
RoomsNaming(e) ==
    {r \in RoomsFrom(e._id) : \E k \in 1..Len(r.participants) : r.participants[k] = e.name}

\* C17: a waiting entry is only ever removed when a Room naming its user is
\* already stored, so every entry ever enqueued is still in the match
\* collection or has a Room paired from it.
C17_RoomBeforeDelete ==
    /\ [](\A id \in 1..(nextId - 1) :
             \/ \E e \in match : e._id = id
             \/ RoomsFrom(id) # {})
    /\ [][\A e \in match : e \notin match' => RoomsNaming(e) # {}]_vars

\* C17 witness: a pairing join is between persisting the Room and deleting
\* the entry: the waiting user is in the match collection and in a Room.
C17_Witness ==
    \E h \in Handlers :
        /\ h.pc = "j_delete"
        /\ h.other \in match
        /\ RoomsNaming(h.other) # {}

\* the system messages stored so far
SystemMessages == {k \in 1..Len(message) : message[k].type = "system"}

\* C18: with only joins of non-empty names, served one at a time from an
\* empty store, after n completed calls there are n \div 2 Rooms, n % 2
\* waiting entries and n \div 2 system messages, and the n-th call returned
\* waiting when n is odd and paired when n is even.
C18_SequentialJoins ==
    inflight = EmptyBag =>
        /\ Cardinality(room) = calls \div 2
        /\ Cardinality(Waiting) = calls % 2
        /\ Cardinality(match) = calls % 2
        /\ Cardinality(SystemMessages) = calls \div 2
        /\ Len(message) = calls \div 2
        /\ calls > 0 =>
              /\ resp.op = "join"
              /\ resp.status = IF calls % 2 = 1 THEN "waiting" ELSE "paired"

\* C18 witness: four joins have completed: two Rooms, nobody waiting.
C18_Witness ==
    /\ inflight = EmptyBag
    /\ calls = 4
    /\ Cardinality(room) = 2
    /\ match = {}
    /\ resp.status = "paired"

\* C19: the slug a pairing join samples is null exactly when the catalog is
\* empty at that moment, and otherwise the slug of an entry then in the
\* catalog; the Room is created with the slug that was sampled.
C19_SampledSlug ==
    [][\A h \in Handlers :
         /\ JoinSample(h) =>
               \E h2 \in BagToSet(inflight') :
                   /\ Step(h, h2)
                   /\ h2.pc = "j_room"
                   /\ (h2.slug = Null) <=> (CountQuestions = 0)
                   /\ h2.slug # Null => (h2.slug \in Slugs /\ question[h2.slug] > 0)
         /\ JoinCreateRoom(h) =>
               \E r \in room' \ room : r.question_slug = h.slug
      ]_vars

\* C19 witness: a Room holds the slug of the first sample while the second
\* sample is not in the catalog yet: it was drawn in the middle of a seeding.
C19_Witness ==
    /\ \E r \in room : r.question_slug = "two-sum"
    /\ question["valid-parentheses"] = 0

\* C20: join never looks at the names: a join whose name equals the name of
\* the entry it found is paired with it like any other, and the Room it
\* creates lists that name twice.
C20_SelfPairing ==
    [][/\ \A raw \in RawNames :
            (JoinFind(raw) /\ \E e \in Waiting : e.name = Strip(raw)) =>
                \E h \in BagToSet(inflight') :
                    /\ Spawn(h)
                    /\ h.pc = "j_sample"
                    /\ h.other.name = h.name
       /\ \A h \in Handlers :
            (JoinCreateRoom(h) /\ h.other.name = h.name) =>
                \E r \in room' \ room : r.participants = <<h.name, h.name>>
      ]_vars

\* C20 witness: after exactly two joins, both named A, a Room [A, A] exists.
C20_Witness ==
    /\ calls = 2
    /\ inflight = EmptyBag
    /\ resp.op = "join" /\ resp.status = "paired"
    /\ \E r \in room : r.participants = << <<"A">>, <<"A">> >>

====
